---- MODULE Spec2Model ----
(***************************************************************************)
(* Model of the two validation utilities of the puzzle repository:         *)
(*   - validate_geometry.py: point/line classification, segment-line       *)
(*     intersection, polygon area, polygon centroid and polygon split;     *)
(*   - tools/validate_json.py: the level-file validator and its exit code. *)
(*                                                                         *)
(* Numbers.  The Python code computes in floating point.  The model        *)
(* computes the same expressions in exact rational arithmetic.  Lengths    *)
(* are counted in grid units of half an EPSILON (EPSILON = 0.0001 is 2     *)
(* grid units, 1.0 is 20000 grid units), so that a point can lie closer    *)
(* than EPSILON to a line without lying on it.  A line normal is kept as   *)
(* an integer vector (x, y) together with n2, and stands for the vector    *)
(* (x, y) / sqrt(n2): with n2 = x*x + y*y it is the unit vector that       *)
(* Vector2(x, y).normalized() returns.                                     *)
(***************************************************************************)
EXTENDS Integers, Sequences, FiniteSets, TLC

\* EPSILON = 0.0001 as a length, in grid units.
EPSILON == 2
\* EPSILON = 0.0001 as a pure number is 1 / EpsInv.
EpsInv == 10000
\* Grid units in the length 1.0.
Scale == EPSILON * EpsInv
\* The tolerance 1.0 of test_area_conservation, as an area in grid units.
Tol == Scale * Scale

Abs(i) == IF i < 0 THEN -i ELSE i

RECURSIVE Gcd(_, _)
Gcd(a, b) == IF b = 0 THEN a ELSE Gcd(b, a % b)

(***************************************************************************)
(* Exact rationals [n, d] with d > 0 and gcd(n, d) = 1: the values of the  *)
(* Python floats.                                                          *)
(***************************************************************************)
Rat(n, d) ==
    IF d = 1 THEN [n |-> n, d |-> 1]
    ELSE LET g == Gcd(Abs(n), Abs(d))
             s == IF d < 0 THEN -1 ELSE 1
         IN  [n |-> s * (n \div g), d |-> s * (d \div g)]

R(i) == [n |-> i, d |-> 1]

RAdd(a, b) ==
    IF a.d = b.d THEN Rat(a.n + b.n, a.d)
    ELSE LET g == Gcd(a.d, b.d)
         IN  Rat(a.n * (b.d \div g) + b.n * (a.d \div g), (a.d \div g) * b.d)

RNeg(a) == [n |-> -a.n, d |-> a.d]

RSub(a, b) == RAdd(a, RNeg(b))

RMul(a, b) ==
    IF a.d = 1 /\ b.d = 1 THEN [n |-> a.n * b.n, d |-> 1]
    ELSE LET g1 == Gcd(Abs(a.n), b.d)
             g2 == Gcd(Abs(b.n), a.d)
         IN  Rat((a.n \div g1) * (b.n \div g2), (a.d \div g2) * (b.d \div g1))

\* a / b for b # 0
RDiv(a, b) == RMul(a, Rat(b.d, b.n))

RAbs(a) == [n |-> Abs(a.n), d |-> a.d]

\* a < b
RLt(a, b) ==
    IF a.d = 1 /\ b.d = 1 THEN a.n < b.n ELSE RSub(a, b).n < 0

RMin(a, b) == IF RLt(b, a) THEN b ELSE a
RMax(a, b) == IF RLt(a, b) THEN b ELSE a

\* t < -EPSILON for the pure number EPSILON = 1/EpsInv, without large products:
\* n/d < -1/EpsInv  <=>  -n > d/EpsInv  <=>  -n > floor(d/EpsInv)
BelowMinusEpsilon(t) == t.n < 0 /\ -t.n > t.d \div EpsInv

\* t > 1.0 + EPSILON:  n/d > 1 + 1/EpsInv  <=>  n - d > floor(d/EpsInv)
AboveOnePlusEpsilon(t) == t.n - t.d > t.d \div EpsInv

(***************************************************************************)
(* class Vector2                                                           *)
(***************************************************************************)
Vector2(x, y) == [x |-> x, y |-> y]

\* a point with integer coordinates
Pt(i, j) == Vector2(R(i), R(j))

VSub(a, b) == Vector2(RSub(a.x, b.x), RSub(a.y, b.y))
VAdd(a, b) == Vector2(RAdd(a.x, b.x), RAdd(a.y, b.y))
VMul(a, s) == Vector2(RMul(a.x, s), RMul(a.y, s))

\* Vector2(x, y).normalized() for integers x, y: the zero vector when the
\* length is below EPSILON (for integers: when x = y = 0), else (x, y)/length.
normalized(x, y) ==
    IF x * x + y * y = 0 THEN [x |-> 0, y |-> 0, n2 |-> 1]
    ELSE [x |-> x, y |-> y, n2 |-> x * x + y * y]

\* the normal passed as it is, without normalized()
raw(x, y) == [x |-> x, y |-> y, n2 |-> 1]

\* -N
NegNormal(nrm) == [x |-> -nrm.x, y |-> -nrm.y, n2 |-> nrm.n2]

\* v.dot(normal) * sqrt(normal.n2)
dot(v, nrm) == RAdd(RMul(v.x, R(nrm.x)), RMul(v.y, R(nrm.y)))

\* abs(D / sqrt(n2)) < EPSILON, for D the scaled dot product: D*D < EPSILON^2 * n2,
\* computed without squaring a large D (n2 >= 1, so |D| < EPSILON * n2 follows).
AbsBelowEpsilon(D, n2) ==
    LET a == Abs(D.n)
        b == EPSILON * D.d
    IN  a < b * n2 /\ a * a < b * b * n2

(***************************************************************************)
(* The geometry functions                                                  *)
(***************************************************************************)
\* An Optional[Vector2] is << >> for None and << v >> for the point v.
None == << >>

\* point_side_of_line with `distance < EPSILON` in place of `abs(distance) < EPSILON`
PointSideWithoutAbs(point, line_point, line_normal) ==
    LET to_point == VSub(point, line_point)
        distance == dot(to_point, line_normal)
    IN  IF distance.n <= 0 \/ AbsBelowEpsilon(distance, line_normal.n2) THEN 0
        ELSE 1

point_side_of_line(point, line_point, line_normal) ==
    LET to_point == VSub(point, line_point)
        distance == dot(to_point, line_normal)
    IN  IF AbsBelowEpsilon(distance, line_normal.n2) THEN 0
        ELSE IF distance.n > 0 THEN 1 ELSE -1

\* SegmentLineCalc with `denominator == 0` for the parallel case
SegmentLineCalcExactZero(seg_start, seg_end, line_point, line_normal) ==
    LET seg_dir == VSub(seg_end, seg_start)
        denominator == dot(seg_dir, line_normal)
    IN  IF denominator.n = 0
        THEN [point |-> << >>, divided |-> FALSE, t |-> << >>]
        ELSE LET t == RDiv(dot(VSub(line_point, seg_start), line_normal), denominator)
             IN  IF BelowMinusEpsilon(t) \/ AboveOnePlusEpsilon(t)
                 THEN [point |-> << >>, divided |-> TRUE, t |-> << t >>]
                 ELSE LET t_clamped == RMax(R(0), RMin(R(1), t))
                      IN  [point |-> << Vector2(RAdd(seg_start.x, RMul(seg_dir.x, t_clamped)),
                                                RAdd(seg_start.y, RMul(seg_dir.y, t_clamped))) >>,
                           divided |-> TRUE,
                           t |-> << t >>]

\* SegmentLineCalc that uses t where the code uses t_clamped
SegmentLineCalcUnclamped(seg_start, seg_end, line_point, line_normal) ==
    LET seg_dir == VSub(seg_end, seg_start)
        denominator == dot(seg_dir, line_normal)
    IN  IF AbsBelowEpsilon(denominator, line_normal.n2)
        THEN [point |-> << >>, divided |-> FALSE, t |-> << >>]
        ELSE LET t == RDiv(dot(VSub(line_point, seg_start), line_normal), denominator)
             IN  IF BelowMinusEpsilon(t) \/ AboveOnePlusEpsilon(t)
                 THEN [point |-> << >>, divided |-> TRUE, t |-> << t >>]
                 ELSE [point |-> << Vector2(RAdd(seg_start.x, RMul(seg_dir.x, t)),
                                            RAdd(seg_start.y, RMul(seg_dir.y, t))) >>,
                       divided |-> TRUE,
                       t |-> << t >>]

\* SegmentLineCalc with t taken from seg_start - line_point
SegmentLineCalcSwapped(seg_start, seg_end, line_point, line_normal) ==
    LET seg_dir == VSub(seg_end, seg_start)
        denominator == dot(seg_dir, line_normal)
    IN  IF AbsBelowEpsilon(denominator, line_normal.n2)
        THEN [point |-> << >>, divided |-> FALSE, t |-> << >>]
        ELSE LET t == RDiv(dot(VSub(seg_start, line_point), line_normal), denominator)
             IN  IF BelowMinusEpsilon(t) \/ AboveOnePlusEpsilon(t)
                 THEN [point |-> << >>, divided |-> TRUE, t |-> << t >>]
                 ELSE LET t_clamped == RMax(R(0), RMin(R(1), t))
                      IN  [point |-> << Vector2(RAdd(seg_start.x, RMul(seg_dir.x, t_clamped)),
                                                RAdd(seg_start.y, RMul(seg_dir.y, t_clamped))) >>,
                           divided |-> TRUE,
                           t |-> << t >>]

\* segment_line_intersection with its intermediate values: the returned
\* Optional point, whether the division of line 69 was executed, and the
\* unclamped parameter t (<< >> if it was not computed).
SegmentLineCalc(seg_start, seg_end, line_point, line_normal) ==
    LET seg_dir == VSub(seg_end, seg_start)
        denominator == dot(seg_dir, line_normal)
    IN  IF AbsBelowEpsilon(denominator, line_normal.n2)
        THEN [point |-> None, divided |-> FALSE, t |-> << >>]
        ELSE LET t == RDiv(dot(VSub(line_point, seg_start), line_normal), denominator)
             IN  IF BelowMinusEpsilon(t) \/ AboveOnePlusEpsilon(t)
                 THEN [point |-> None, divided |-> TRUE, t |-> << t >>]
                 ELSE LET t_clamped == RMax(R(0), RMin(R(1), t))
                      IN  [point |-> << Vector2(RAdd(seg_start.x, RMul(seg_dir.x, t_clamped)),
                                                RAdd(seg_start.y, RMul(seg_dir.y, t_clamped))) >>,
                           divided |-> TRUE,
                           t |-> << t >>]

segment_line_intersection(seg_start, seg_end, line_point, line_normal) ==
    SegmentLineCalc(seg_start, seg_end, line_point, line_normal).point

\* j = (i + 1) % n for the 1-based index i
NextIdx(i, n) == (i % n) + 1

RECURSIVE ShoelaceSum(_, _)
\* the value of `area` after the loop of polygon_area has run for indices 1..i
ShoelaceSum(vertices, i) ==
    IF i = 0 THEN R(0)
    ELSE LET j == NextIdx(i, Len(vertices))
         IN  RSub(RAdd(ShoelaceSum(vertices, i - 1),
                       RMul(vertices[i].x, vertices[j].y)),
                  RMul(vertices[j].x, vertices[i].y))

polygon_area(vertices) ==
    IF Len(vertices) < 3 THEN R(0)
    ELSE RDiv(RAbs(ShoelaceSum(vertices, Len(vertices))), R(2))

Cross(vertices, i) ==
    LET j == NextIdx(i, Len(vertices))
    IN  RSub(RMul(vertices[i].x, vertices[j].y), RMul(vertices[j].x, vertices[i].y))

RECURSIVE CentroidLoop(_, _)
\* [area, centroid] after the loop of polygon_centroid has run for indices 1..i
CentroidLoop(vertices, i) ==
    IF i = 0 THEN [area |-> R(0), centroid |-> Pt(0, 0)]
    ELSE LET prev == CentroidLoop(vertices, i - 1)
             j == NextIdx(i, Len(vertices))
             cross == Cross(vertices, i)
         IN  [area |-> RAdd(prev.area, cross),
              centroid |-> VAdd(prev.centroid, VMul(VAdd(vertices[i], vertices[j]), cross))]

RECURSIVE VertexSum(_, _)
VertexSum(vertices, i) ==
    IF i = 0 THEN Pt(0, 0) ELSE VAdd(VertexSum(vertices, i - 1), vertices[i])

\* the signed area `area` of polygon_centroid after `area *= 0.5`
SignedArea(vertices) == RMul(CentroidLoop(vertices, Len(vertices)).area, Rat(1, 2))

\* abs(area) < EPSILON in polygon_centroid: an area (grid units squared)
\* against the number 0.0001, which is Scale * Scale / EpsInv square grid units
AreaBelowEpsilon(area) == RLt(RAbs(area), R((Scale * Scale) \div EpsInv))

\* polygon_centroid dividing by the absolute value of the signed area
CentroidByAbsArea(vertices) ==
    LET n == Len(vertices)
    IN  IF n = 0 THEN Pt(0, 0)
        ELSE IF n = 1 THEN vertices[1]
        ELSE IF n = 2 THEN VMul(VAdd(vertices[1], vertices[2]), Rat(1, 2))
        ELSE LET area == SignedArea(vertices)
             IN  IF AreaBelowEpsilon(area)
                 THEN VMul(VertexSum(vertices, n), Rat(1, n))
                 ELSE VMul(CentroidLoop(vertices, n).centroid,
                           RDiv(R(1), RMul(R(6), RAbs(area))))

polygon_centroid(vertices) ==
    LET n == Len(vertices)
    IN  IF n = 0 THEN Pt(0, 0)
        ELSE IF n = 1 THEN vertices[1]
        ELSE IF n = 2 THEN VMul(VAdd(vertices[1], vertices[2]), Rat(1, 2))
        ELSE LET area == SignedArea(vertices)
             IN  IF AreaBelowEpsilon(area)
                 THEN VMul(VertexSum(vertices, n), Rat(1, n))
                 ELSE VMul(CentroidLoop(vertices, n).centroid,
                           RDiv(R(1), RMul(R(6), area)))

\* x.append(v) if cond
AppendIf(cond, s, v) == IF cond THEN Append(s, v) ELSE s

RECURSIVE SplitLoopNoRightInsert(_, _, _, _)
\* SplitLoop without `right_verts.append(intersection)`
SplitLoopNoRightInsert(vertices, line_point, line_normal, i) ==
    IF i = 0 THEN [left |-> << >>, right |-> << >>, intersections |-> << >>]
    ELSE LET prev == SplitLoopNoRightInsert(vertices, line_point, line_normal, i - 1)
             current == vertices[i]
             next_vertex == vertices[NextIdx(i, Len(vertices))]
             current_side == point_side_of_line(current, line_point, line_normal)
             next_side == point_side_of_line(next_vertex, line_point, line_normal)
             l1 == AppendIf(current_side >= 0, prev.left, current)
             r1 == AppendIf(current_side <= 0, prev.right, current)
             intersection ==
                 IF current_side * next_side < 0
                 THEN segment_line_intersection(current, next_vertex, line_point, line_normal)
                 ELSE None
         IN  IF intersection # None
             THEN [left |-> Append(l1, intersection[1]),
                   right |-> r1,
                   intersections |-> Append(prev.intersections, intersection[1])]
             ELSE [left |-> l1, right |-> r1, intersections |-> prev.intersections]

RECURSIVE SplitLoopOneWay(_, _, _, _)
\* SplitLoop that sees a crossing only from the positive to the negative side
SplitLoopOneWay(vertices, line_point, line_normal, i) ==
    IF i = 0 THEN [left |-> << >>, right |-> << >>, intersections |-> << >>]
    ELSE LET prev == SplitLoopOneWay(vertices, line_point, line_normal, i - 1)
             current == vertices[i]
             next_vertex == vertices[NextIdx(i, Len(vertices))]
             current_side == point_side_of_line(current, line_point, line_normal)
             next_side == point_side_of_line(next_vertex, line_point, line_normal)
             l1 == AppendIf(current_side >= 0, prev.left, current)
             r1 == AppendIf(current_side <= 0, prev.right, current)
             intersection ==
                 IF current_side > 0 /\ next_side < 0
                 THEN segment_line_intersection(current, next_vertex, line_point, line_normal)
                 ELSE None
         IN  IF intersection # None
             THEN [left |-> Append(l1, intersection[1]),
                   right |-> Append(r1, intersection[1]),
                   intersections |-> Append(prev.intersections, intersection[1])]
             ELSE [left |-> l1, right |-> r1, intersections |-> prev.intersections]

RECURSIVE SplitLoopStrictLeft(_, _, _, _)
\* SplitLoop with `current_side > 0` for the left part
SplitLoopStrictLeft(vertices, line_point, line_normal, i) ==
    IF i = 0 THEN [left |-> << >>, right |-> << >>, intersections |-> << >>]
    ELSE LET prev == SplitLoopStrictLeft(vertices, line_point, line_normal, i - 1)
             current == vertices[i]
             next_vertex == vertices[NextIdx(i, Len(vertices))]
             current_side == point_side_of_line(current, line_point, line_normal)
             next_side == point_side_of_line(next_vertex, line_point, line_normal)
             l1 == AppendIf(current_side > 0, prev.left, current)
             r1 == AppendIf(current_side <= 0, prev.right, current)
             intersection ==
                 IF current_side * next_side < 0
                 THEN segment_line_intersection(current, next_vertex, line_point, line_normal)
                 ELSE None
         IN  IF intersection # None
             THEN [left |-> Append(l1, intersection[1]),
                   right |-> Append(r1, intersection[1]),
                   intersections |-> Append(prev.intersections, intersection[1])]
             ELSE [left |-> l1, right |-> r1, intersections |-> prev.intersections]

RECURSIVE SplitLoop(_, _, _, _)
\* left_verts, right_verts and intersections after the loop of
\* split_polygon_by_line has run for indices 1..i
SplitLoop(vertices, line_point, line_normal, i) ==
    IF i = 0 THEN [left |-> << >>, right |-> << >>, intersections |-> << >>]
    ELSE LET prev == SplitLoop(vertices, line_point, line_normal, i - 1)
             current == vertices[i]
             next_vertex == vertices[NextIdx(i, Len(vertices))]
             current_side == point_side_of_line(current, line_point, line_normal)
             next_side == point_side_of_line(next_vertex, line_point, line_normal)
             l1 == AppendIf(current_side >= 0, prev.left, current)
             r1 == AppendIf(current_side <= 0, prev.right, current)
             intersection ==
                 IF current_side * next_side < 0
                 THEN segment_line_intersection(current, next_vertex, line_point, line_normal)
                 ELSE None
         IN  IF intersection # None
             THEN [left |-> Append(l1, intersection[1]),
                   right |-> Append(r1, intersection[1]),
                   intersections |-> Append(prev.intersections, intersection[1])]
             ELSE [left |-> l1, right |-> r1, intersections |-> prev.intersections]

\* split_polygon_by_line with `len(vertices) < 2` for the degenerate case
SplitFromTwoVertices(vertices, line_point, line_normal) ==
    IF Len(vertices) < 2
    THEN [left |-> << >>, right |-> << >>, intersections |-> << >>]
    ELSE SplitLoop(vertices, line_point, line_normal, Len(vertices))

split_polygon_by_line(vertices, line_point, line_normal) ==
    IF Len(vertices) < 3
    THEN [left |-> << >>, right |-> << >>, intersections |-> << >>]
    ELSE SplitLoop(vertices, line_point, line_normal, Len(vertices))

Reverse(s) == [i \in 1..Len(s) |-> s[Len(s) + 1 - i]]

(***************************************************************************)
(* Inputs.  Polygon vertices lie on a square grid of pitch Stride; line    *)
(* points lie on and next to grid lines, so that vertices fall on the      *)
(* line, within EPSILON of it and clear of it.  The wide polygons and      *)
(* segments are as long as 1.0 / EPSILON, the length at which EPSILON      *)
(* times a length is an area of 1.0.                                       *)
(***************************************************************************)
\* largest number of vertices of a grid polygon
MaxVerts == 4

Stride == 125 * EPSILON
HalfWidth == Tol \div 2

GridCoords == {0, Stride, 2 * Stride}
GridPts == {Pt(i, j) : i, j \in GridCoords}

\* p comes before q in the order by x, then y
Before(p, q) == p.x.n < q.x.n \/ (p.x.n = q.x.n /\ p.y.n < q.y.n)

\* the sequences of k distinct elements of S
RECURSIVE Injections(_, _)
Injections(S, k) ==
    IF k = 0 THEN {<< >>}
    ELSE UNION {{Append(q, e) : e \in S \ {q[i] : i \in 1..Len(q)}} : q \in Injections(S, k - 1)}

\* the polygons of at most MaxVerts distinct grid points, each listed from its
\* first vertex in the order Before, in both directions of traversal
GridPolys ==
    {<< >>} \cup
    UNION {UNION {{<<f>> \o q : q \in Injections({p \in GridPts : Before(f, p)}, k - 1)} :
                    k \in 1..MaxVerts} : f \in GridPts}

WidePolys ==
    {<<Pt(-HalfWidth, a), Pt(-HalfWidth, b), Pt(0, c), Pt(HalfWidth, d), Pt(0, e)>> :
        a \in {-1, 0, 1}, b \in {0, 2}, c \in {-1, 0, 1}, d \in {-1, 0, 1}, e \in {-2, 0}}

LinePts == {Pt(Stride, Stride), Pt(Stride - 1, Stride), Pt(Stride \div 2, Stride \div 2), Pt(0, 0)}

UnitNormals ==
    {normalized(1, 0), normalized(0, 1), normalized(-1, 0), normalized(1, 1),
     normalized(1, -1), normalized(2, 1)}

Normals == UnitNormals \cup {normalized(0, 0), raw(3, 0)}

VARIABLES
    op,             \* the function called last
    point,          \* argument of point_side_of_line
    seg_start,      \* arguments of segment_line_intersection
    seg_end,
    vertices,       \* argument of polygon_area, polygon_centroid, split_polygon_by_line
    line_point,     \* the line of the last call
    line_normal,
    side,           \* result of point_side_of_line
    prev_side,      \* its result before the normal was negated
    calc,           \* result of segment_line_intersection, with its intermediate values
    area,           \* result of polygon_area(vertices)
    centroid,       \* result of polygon_centroid(vertices)
    prev_area,      \* the results before the winding was reversed
    prev_centroid,
    result,         \* result of split_polygon_by_line
    left_area,      \* polygon_area(result["left"])
    right_area      \* polygon_area(result["right"])

geo == <<op, point, seg_start, seg_end, vertices, line_point, line_normal, side,
         prev_side, calc, area, centroid, prev_area, prev_centroid, result,
         left_area, right_area>>

VARIABLES
    pc,             \* where main is: "idle", "start", "loop", "done", "crashed"
    dir_exists,     \* levels_dir.exists()
    level_files,    \* len(level_files)
    total_levels,   \* the counters of main
    valid_levels,
    invalid_levels,
    total_warnings,
    outcomes,       \* per validated file, the lengths of its errors and warnings
    exit_code       \* the exit code of the process, -1 while it runs

mainv == <<pc, dir_exists, level_files, total_levels, valid_levels, invalid_levels,
           total_warnings, outcomes, exit_code>>

vars == <<geo, mainv>>

\* main is not run
MainIdle ==
    /\ pc = "idle"
    /\ dir_exists = FALSE
    /\ level_files = 0
    /\ total_levels = 0
    /\ valid_levels = 0
    /\ invalid_levels = 0
    /\ total_warnings = 0
    /\ outcomes = << >>
    /\ exit_code = -1

\* the values of the variables a specification does not use
Idle(unused) ==
    /\ "point" \in unused => point = Pt(0, 0)
    /\ "seg" \in unused => seg_start = Pt(0, 0) /\ seg_end = Pt(0, 0)
    /\ "vertices" \in unused => vertices = << >>
    /\ "line" \in unused => line_point = Pt(0, 0) /\ line_normal = normalized(1, 0)

\* no function has been called yet
NoResults ==
    /\ op = "ready"
    /\ side = 0
    /\ prev_side = 0
    /\ calc = [point |-> None, divided |-> FALSE, t |-> << >>]
    /\ area = R(0)
    /\ centroid = Pt(0, 0)
    /\ prev_area = R(0)
    /\ prev_centroid = Pt(0, 0)
    /\ result = [left |-> << >>, right |-> << >>, intersections |-> << >>]
    /\ left_area = R(0)
    /\ right_area = R(0)
    /\ MainIdle

(***************************************************************************)
(* Splitting: split_polygon_by_line, and the areas test_area_conservation  *)
(* takes of the polygon and of its two parts.                              *)
(***************************************************************************)
SplitInputs ==
    {[vs |-> vs, lp |-> lp, ln |-> ln] :
        vs \in GridPolys, lp \in LinePts \ {Pt(0, 0)}, ln \in Normals}
    \cup
    {[vs |-> vs, lp |-> Pt(0, 0), ln |-> ln] :
        vs \in WidePolys, ln \in {normalized(0, 1), normalized(0, -1)}}

InitSplit ==
    /\ \E in \in SplitInputs :
            vertices = in.vs /\ line_point = in.lp /\ line_normal = in.ln
    /\ Idle({"point", "seg"})
    /\ NoResults

SplitPolygon ==
    /\ op = "ready"
    /\ op' = "split"
    /\ area' = polygon_area(vertices)
    /\ result' = split_polygon_by_line(vertices, line_point, line_normal)
    /\ left_area' = polygon_area(result'.left)
    /\ right_area' = polygon_area(result'.right)
    /\ UNCHANGED <<point, seg_start, seg_end, vertices, line_point, line_normal, side,
                   prev_side, calc, centroid, prev_area, prev_centroid>>
    /\ UNCHANGED mainv

NextSplit == SplitPolygon

SpecSplit == InitSplit /\ [][NextSplit]_vars

(***************************************************************************)
(* Vocabulary of the properties of a split                                 *)
(***************************************************************************)
Contains(s, v) == \E i \in 1..Len(s) : s[i] = v

\* the classification of vertex i, and the sign of its exact distance
SideOf(i) == point_side_of_line(vertices[i], line_point, line_normal)
SignedDist(i) == dot(VSub(vertices[i], line_point), line_normal).n

\* edge i runs from vertex i to vertex NextIdx(i, n)
Crossing(i) == SideOf(i) * SideOf(NextIdx(i, Len(vertices))) < 0

RECURSIVE CrossingsUpTo(_)
\* the crossing points of the edges 1..i, in the order of the edges
CrossingsUpTo(i) ==
    IF i = 0 THEN << >>
    ELSE IF Crossing(i)
         THEN CrossingsUpTo(i - 1) \o
              segment_line_intersection(vertices[i], vertices[NextIdx(i, Len(vertices))],
                                        line_point, line_normal)
         ELSE CrossingsUpTo(i - 1)

IsUnit(nrm) == nrm.n2 = nrm.x * nrm.x + nrm.y * nrm.y /\ nrm.n2 > 0

\* the line has vertices strictly on both of its sides
CrossesInterior ==
    /\ \E i \in 1..Len(vertices) : SignedDist(i) > 0
    /\ \E i \in 1..Len(vertices) : SignedDist(i) < 0

\* sign of (b - a) x (c - a) for points with integer coordinates
Orient(a, b, c) ==
    LET t1 == (b.x.n - a.x.n) * (c.y.n - a.y.n)
        t2 == (b.y.n - a.y.n) * (c.x.n - a.x.n)
    IN  IF t1 > t2 THEN 1 ELSE IF t1 < t2 THEN -1 ELSE 0

Between(u, v, w) == (u <= v /\ v <= w) \/ (w <= v /\ v <= u)

\* c lies on the closed segment a-b, given that a, b, c are collinear
OnSegment(a, b, c) == Between(a.x.n, c.x.n, b.x.n) /\ Between(a.y.n, c.y.n, b.y.n)

\* the closed segments a-b and c-d have a common point
SegmentsMeet(a, b, c, d) ==
    LET o1 == Orient(a, b, c)
        o2 == Orient(a, b, d)
        o3 == Orient(c, d, a)
        o4 == Orient(c, d, b)
    IN  \/ o1 * o2 < 0 /\ o3 * o4 < 0
        \/ o1 = 0 /\ OnSegment(a, b, c)
        \/ o2 = 0 /\ OnSegment(a, b, d)
        \/ o3 = 0 /\ OnSegment(c, d, a)
        \/ o4 = 0 /\ OnSegment(c, d, b)

\* a simple polygon: distinct vertices, edges that meet only at shared endpoints
IsSimple(vs) ==
    LET n == Len(vs)
        nx(i) == NextIdx(i, n)
    IN  /\ n >= 3
        /\ \A i, j \in 1..n : i # j => vs[i] # vs[j]
        /\ \A i \in 1..n : ~(Orient(vs[i], vs[nx(i)], vs[nx(nx(i))]) = 0
                                /\ OnSegment(vs[i], vs[nx(i)], vs[nx(nx(i))]))
        /\ \A i \in 1..n : ~(Orient(vs[i], vs[nx(i)], vs[nx(nx(i))]) = 0
                                /\ OnSegment(vs[nx(i)], vs[nx(nx(i))], vs[i]))
        /\ \A i, j \in 1..n :
              (i < j /\ nx(i) # j /\ nx(j) # i)
                  => ~SegmentsMeet(vs[i], vs[nx(i)], vs[j], vs[nx(j)])

\* a square, its vertices in either direction of traversal
IsSquare(vs) ==
    /\ Len(vs) = 4
    /\ vs[1] # vs[2]
    /\ \E s \in {1, -1} : \A i \in 1..4 :
          LET a == vs[i]
              b == vs[NextIdx(i, 4)]
              c == vs[NextIdx(NextIdx(i, 4), 4)]
          IN  /\ c.x.n - b.x.n = -s * (b.y.n - a.y.n)
              /\ c.y.n - b.y.n = s * (b.x.n - a.x.n)

AxisAligned(nrm) == nrm \in {normalized(1, 0), normalized(-1, 0), normalized(0, 1)}
Diagonal(nrm) == nrm \in {normalized(1, 1), normalized(1, -1)}

\* abs(total_area - original_area) of test_area_conservation
AreaDiff == RAbs(RSub(RAdd(left_area, right_area), area))

\* a < 1.0 for an area a >= 0:  n/d < Tol  <=>  floor(n/d) < Tol
BelowTol(a) == a.n \div a.d < Tol

NoVertexOnBoundary == \A i \in 1..Len(vertices) : SideOf(i) # 0
BoundaryVerticesOnLine == \A i \in 1..Len(vertices) : SideOf(i) = 0 => SignedDist(i) = 0

SplitDone == op = "split" /\ Len(vertices) >= 3

(***************************************************************************)
(* C1, as claimed: for a simple polygon and a unit-normal line that        *)
(* crosses its interior, area(left) + area(right) differs from             *)
(* area(original) by less than 1.0.                                        *)
(***************************************************************************)
C1_AreaConservedWithinTolerance ==
    (SplitDone /\ IsSimple(vertices) /\ IsUnit(line_normal) /\ CrossesInterior)
        => BelowTol(AreaDiff)

(***************************************************************************)
(* C1, amended: for a simple polygon and a unit-normal line that crosses   *)
(* its interior, if every vertex classified 0 lies exactly on the line     *)
(* then area(left) + area(right) equals area(original) (so the difference  *)
(* is below 1.0).                                                          *)
(***************************************************************************)
C1_AreaConservedWhenBoundaryExact ==
    (SplitDone /\ IsSimple(vertices) /\ IsUnit(line_normal) /\ CrossesInterior
        /\ BoundaryVerticesOnLine)
        => (AreaDiff = R(0) /\ BelowTol(AreaDiff))

C1_Witness ==
    /\ SplitDone /\ IsSimple(vertices) /\ IsUnit(line_normal) /\ CrossesInterior
    /\ BoundaryVerticesOnLine
    /\ \E i \in 1..Len(vertices) : SideOf(i) = 0
    /\ Len(result.intersections) >= 1
    /\ left_area.n > 0 /\ right_area.n > 0

(***************************************************************************)
(* C2, as claimed: a square split by an axis-aligned or diagonal line      *)
(* through its interior has at least 3 vertices in left, at least 3 in     *)
(* right and exactly 2 intersections.                                      *)
(***************************************************************************)
C2_SquareSplitCardinality ==
    (SplitDone /\ IsSquare(vertices) /\ CrossesInterior
        /\ (AxisAligned(line_normal) \/ Diagonal(line_normal)))
        => /\ Len(result.left) >= 3
           /\ Len(result.right) >= 3
           /\ Len(result.intersections) = 2

(***************************************************************************)
(* C2, amended: the same, for a line that passes no vertex of the square   *)
(* within EPSILON (no vertex is classified 0).                             *)
(***************************************************************************)
C2_SquareSplitCardinalityOffVertices ==
    (SplitDone /\ IsSquare(vertices) /\ CrossesInterior /\ NoVertexOnBoundary
        /\ (AxisAligned(line_normal) \/ Diagonal(line_normal)))
        => /\ Len(result.left) >= 3
           /\ Len(result.right) >= 3
           /\ Len(result.intersections) = 2

C2_Witness ==
    /\ SplitDone /\ IsSquare(vertices) /\ CrossesInterior /\ NoVertexOnBoundary
    /\ Diagonal(line_normal)
    /\ Len(result.intersections) = 2
    /\ Len(result.left) = 5 /\ Len(result.right) = 3

(***************************************************************************)
(* C3: of a polygon with at least 3 vertices, a vertex classified 0 is in  *)
(* left and in right, a vertex classified +1 is in left and not in right,  *)
(* a vertex classified -1 is in right and not in left.                     *)
(***************************************************************************)
C3_BoundaryInclusion ==
    SplitDone =>
        \A i \in 1..Len(vertices) :
            LET v == vertices[i]
                inL == Contains(result.left, v)
                inR == Contains(result.right, v)
            IN  /\ SideOf(i) = 0 => (inL /\ inR)
                /\ SideOf(i) = 1 => (inL /\ ~inR)
                /\ SideOf(i) = -1 => (inR /\ ~inL)

C3_Witness ==
    /\ SplitDone
    /\ \E i \in 1..Len(vertices) : SideOf(i) = 0 /\ SignedDist(i) # 0
    /\ \E i \in 1..Len(vertices) : SideOf(i) = 1
    /\ \E i \in 1..Len(vertices) : SideOf(i) = -1
    /\ Len(result.intersections) >= 1

(***************************************************************************)
(* C7: for fewer than 3 vertices polygon_area is 0 and the split has       *)
(* left, right and intersections empty, whatever the line.                 *)
(***************************************************************************)
C7_DegenerateCounts ==
    (op = "split" /\ Len(vertices) < 3) =>
        /\ area = R(0)
        /\ result = [left |-> << >>, right |-> << >>, intersections |-> << >>]

C7_Witness ==
    /\ op = "split"
    /\ Len(vertices) = 2
    /\ SideOf(1) = 1 /\ SideOf(2) = -1

(***************************************************************************)
(* C9: every edge whose endpoints are classified on strictly opposite      *)
(* sides yields an intersection point, which is in left, right and         *)
(* intersections; intersections holds exactly these points, in the order   *)
(* of the edges.                                                           *)
(***************************************************************************)
C9_EveryCrossingIntersects ==
    SplitDone =>
        /\ \A i \in 1..Len(vertices) :
              Crossing(i) =>
                LET p == segment_line_intersection(vertices[i],
                             vertices[NextIdx(i, Len(vertices))], line_point, line_normal)
                IN  /\ p # None
                    /\ Contains(result.left, p[1])
                    /\ Contains(result.right, p[1])
                    /\ Contains(result.intersections, p[1])
        /\ Len(result.intersections) = Cardinality({i \in 1..Len(vertices) : Crossing(i)})
        /\ result.intersections = CrossingsUpTo(Len(vertices))

C9_Witness ==
    /\ SplitDone
    /\ Cardinality({i \in 1..Len(vertices) : Crossing(i)}) = 4
    /\ \E k \in 1..Len(result.intersections) : result.intersections[k].x.d > 1

(***************************************************************************)
(* Classification and intersection: point_side_of_line, then the same      *)
(* call with the normal negated, and segment_line_intersection.            *)
(***************************************************************************)
WidePts == {Pt(i, j) : i \in {-HalfWidth, 0, HalfWidth}, j \in {-1, 0, 1}}

LineInputs ==
    {[p |-> p, a |-> Pt(0, 0), b |-> Pt(0, 0), lp |-> lp, ln |-> ln] :
        p \in GridPts \cup LinePts, lp \in LinePts, ln \in Normals}
    \cup
    {[p |-> Pt(0, 0), a |-> a, b |-> b, lp |-> lp, ln |-> ln] :
        a \in GridPts, b \in GridPts, lp \in LinePts, ln \in Normals}
    \cup
    {[p |-> Pt(0, 0), a |-> a, b |-> b, lp |-> lp, ln |-> ln] :
        a \in WidePts, b \in WidePts, lp \in {Pt(0, 0), Pt(-1, 0), Pt(1, 1)},
        ln \in {normalized(1, 0), normalized(0, 1), normalized(-1, 0)}}

InitLine ==
    /\ \E in \in LineInputs :
            /\ point = in.p
            /\ seg_start = in.a
            /\ seg_end = in.b
            /\ line_point = in.lp
            /\ line_normal = in.ln
    /\ Idle({"vertices"})
    /\ NoResults

PointSide ==
    /\ op = "ready"
    /\ op' = "point_side"
    /\ side' = point_side_of_line(point, line_point, line_normal)
    /\ UNCHANGED <<point, seg_start, seg_end, vertices, line_point, line_normal,
                   prev_side, calc, area, centroid, prev_area, prev_centroid, result,
                   left_area, right_area>>
    /\ UNCHANGED mainv

\* the same point and line point, classified against -N
NegateNormal ==
    /\ op = "point_side"
    /\ op' = "negated"
    /\ line_normal' = NegNormal(line_normal)
    /\ prev_side' = side
    /\ side' = point_side_of_line(point, line_point, line_normal')
    /\ UNCHANGED <<point, seg_start, seg_end, vertices, line_point, calc, area,
                   centroid, prev_area, prev_centroid, result, left_area, right_area>>
    /\ UNCHANGED mainv

SegmentLine ==
    /\ op = "ready"
    /\ op' = "segment"
    /\ calc' = SegmentLineCalc(seg_start, seg_end, line_point, line_normal)
    /\ UNCHANGED <<point, seg_start, seg_end, vertices, line_point, line_normal, side,
                   prev_side, area, centroid, prev_area, prev_centroid, result,
                   left_area, right_area>>
    /\ UNCHANGED mainv

NextLine == PointSide \/ NegateNormal \/ SegmentLine

SpecLine == InitLine /\ [][NextLine]_vars

(***************************************************************************)
(* C5: point_side_of_line(P, Q, N) = -point_side_of_line(P, Q, -N), and 0  *)
(* stays 0.                                                                *)
(***************************************************************************)
C5_SideSymmetry == op = "negated" => side = -prev_side

C5_Witness ==
    /\ op = "negated"
    /\ prev_side = -1
    /\ side = 1
    /\ ~IsUnit(line_normal)

\* (seg_end - seg_start) . line_normal, times sqrt(n2)
SegDenominator == dot(VSub(seg_end, seg_start), line_normal)
\* signed distance of an endpoint from the line, times sqrt(n2)
StartDist == dot(VSub(seg_start, line_point), line_normal)
EndDist == dot(VSub(seg_end, line_point), line_normal)

(***************************************************************************)
(* C6: a segment with |(seg_end - seg_start) . line_normal| < EPSILON has  *)
(* no intersection, whether it is apart from the line or on it, and the    *)
(* division is not executed.                                               *)
(***************************************************************************)
C6_ParallelGivesNone ==
    (op = "segment" /\ AbsBelowEpsilon(SegDenominator, line_normal.n2))
        => (calc.point = None /\ ~calc.divided)

\* a segment that lies on the line
C6_Witness ==
    /\ op = "segment"
    /\ calc.point = None /\ ~calc.divided
    /\ seg_start # seg_end
    /\ StartDist.n = 0 /\ EndDist.n = 0

\* the parameter of point p along the segment, taken from its coordinates
ParamOf(p) ==
    LET seg_dir == VSub(seg_end, seg_start)
    IN  IF seg_dir.x.n # 0 THEN RDiv(RSub(p.x, seg_start.x), seg_dir.x)
        ELSE IF seg_dir.y.n # 0 THEN RDiv(RSub(p.y, seg_start.y), seg_dir.y)
        ELSE R(0)

(***************************************************************************)
(* C10: a returned point is seg_start + t*(seg_end - seg_start) for some   *)
(* 0 <= t <= 1; None is returned whenever the unclamped parameter is       *)
(* below -EPSILON or above 1 + EPSILON.                                    *)
(***************************************************************************)
C10_PointOnSegment ==
    op = "segment" =>
        /\ calc.point # None =>
              LET p == calc.point[1]
                  tt == ParamOf(p)
                  seg_dir == VSub(seg_end, seg_start)
              IN  /\ ~RLt(tt, R(0)) /\ ~RLt(R(1), tt)
                  /\ p.x = RAdd(seg_start.x, RMul(seg_dir.x, tt))
                  /\ p.y = RAdd(seg_start.y, RMul(seg_dir.y, tt))
        /\ (calc.t # << >> /\ (RLt(calc.t[1], Rat(-1, EpsInv))
                                  \/ RLt(Rat(EpsInv + 1, EpsInv), calc.t[1])))
              => calc.point = None

\* the parameter was outside [0, 1] by less than EPSILON and was clamped
C10_Witness ==
    /\ op = "segment"
    /\ calc.point # None
    /\ calc.t # << >> /\ calc.t[1].n < 0
    /\ calc.point[1] = seg_start

(***************************************************************************)
(* Area and centroid: polygon_area and polygon_centroid of a polygon, and  *)
(* of the same vertices in reverse order.                                  *)
(***************************************************************************)
InitPoly ==
    /\ vertices \in GridPolys
    /\ Idle({"point", "seg", "line"})
    /\ NoResults

PolygonArea ==
    /\ op = "ready"
    /\ op' = "area"
    /\ area' = polygon_area(vertices)
    /\ UNCHANGED <<point, seg_start, seg_end, vertices, line_point, line_normal, side,
                   prev_side, calc, centroid, prev_area, prev_centroid, result,
                   left_area, right_area>>
    /\ UNCHANGED mainv

PolygonCentroid ==
    /\ op = "area"
    /\ op' = "measured"
    /\ centroid' = polygon_centroid(vertices)
    /\ UNCHANGED <<point, seg_start, seg_end, vertices, line_point, line_normal, side,
                   prev_side, calc, area, prev_area, prev_centroid, result,
                   left_area, right_area>>
    /\ UNCHANGED mainv

\* both functions again, on the vertices in reverse order
ReverseWinding ==
    /\ op = "measured"
    /\ op' = "reversed"
    /\ vertices' = Reverse(vertices)
    /\ prev_area' = area
    /\ prev_centroid' = centroid
    /\ area' = polygon_area(vertices')
    /\ centroid' = polygon_centroid(vertices')
    /\ UNCHANGED <<point, seg_start, seg_end, line_point, line_normal, side, prev_side,
                   calc, result, left_area, right_area>>
    /\ UNCHANGED mainv

NextPoly == PolygonArea \/ PolygonCentroid \/ ReverseWinding

SpecPoly == InitPoly /\ [][NextPoly]_vars

NonDegenerate == Len(vertices) >= 3 /\ ~AreaBelowEpsilon(SignedArea(vertices))

(***************************************************************************)
(* C4, as claimed: for a polygon of non-degenerate area, reversing the     *)
(* vertex order changes the centroid and leaves the area unchanged.        *)
(***************************************************************************)
C4_CentroidWindingSensitive ==
    (op = "reversed" /\ NonDegenerate)
        => (centroid # prev_centroid /\ area = prev_area)

(***************************************************************************)
(* C4, amended: for a polygon of non-degenerate area, reversing the vertex *)
(* order leaves both the centroid and the area unchanged.                  *)
(***************************************************************************)
C4_CentroidWindingInsensitive ==
    (op = "reversed" /\ NonDegenerate)
        => (centroid = prev_centroid /\ area = prev_area)

C4_Witness ==
    /\ op = "reversed"
    /\ NonDegenerate
    /\ IsSimple(vertices)
    /\ Len(vertices) = 4
    /\ ~IsSquare(vertices)

(***************************************************************************)
(* tools/validate_json.py.  A level file is unreadable, or not JSON, or    *)
(* holds a JSON object; a key of the object is << >> when absent and       *)
(* << value >> when present.  grid_size is of kind "scalar" when it is a    *)
(* number (or null) instead of an object.                                  *)
(***************************************************************************)
\* largest number of level files in the directory
MaxFiles == 2

Opt(S) == {<< >>} \cup {<<v>> : v \in S}

GridSizes ==
    {[kind |-> "scalar", x |-> << >>, y |-> << >>]}
    \cup {[kind |-> "object", x |-> x, y |-> <<2>>] : x \in Opt({0, 2})}

Positions == {[x |-> x, y |-> <<0>>] : x \in Opt({-1, 0, 2})}

LevelData ==
    [level_id : Opt({"", "L1"}),
     level_name : Opt({"Level"}),
     grid_size : Opt(GridSizes),
     player_start_position : Opt(Positions),
     cell_data : Opt({<<1>>, <<1, 3>>}),
     difficulty : Opt({0, 3})]

LevelFiles ==
    {[parse |-> "bad_json"], [parse |-> "unreadable"]}
    \cup {[parse |-> "ok", data |-> d] : d \in LevelData}

RECURSIVE MissingFields(_, _)
\* the errors of the loop over required_fields, for the fields 1..k
MissingFields(data, k) ==
    LET required_fields == <<"level_id", "level_name", "grid_size",
                             "player_start_position", "cell_data">>
        present == [level_id |-> data.level_id # << >>,
                    level_name |-> data.level_name # << >>,
                    grid_size |-> data.grid_size # << >>,
                    player_start_position |-> data.player_start_position # << >>,
                    cell_data |-> data.cell_data # << >>]
    IN  IF k = 0 THEN << >>
        ELSE MissingFields(data, k - 1) \o
             (IF present[required_fields[k]] THEN << >> ELSE <<"missing_field">>)

HasXY(obj) == obj.x # << >> /\ obj.y # << >>

\* the bounds check of line 46 reads gs['x'] or gs['y'] of a gs without that key:
\* `or` evaluates its operands from the left and stops at the first true one
BoundsCheckRaises(psp, gs) ==
    /\ psp.x[1] >= 0
    /\ \/ gs.x = << >>
       \/ /\ psp.x[1] < gs.x[1]
          /\ psp.y[1] >= 0
          /\ gs.y = << >>

\* validate_level raises (TypeError, KeyError): `'x' not in gs` for a gs that is
\* no container, gs['x'] for a gs without the key
Raises(data) ==
    /\ data.grid_size # << >>
    /\ \/ data.grid_size[1].kind = "scalar"
       \/ /\ ~HasXY(data.grid_size[1])
          /\ data.player_start_position # << >>
          /\ HasXY(data.player_start_position[1])
          /\ BoundsCheckRaises(data.player_start_position[1], data.grid_size[1])

\* the bounds check of line 46, when it does not raise
OutsideGrid(psp, gs) ==
    \/ psp.x[1] < 0
    \/ gs.x # << >> /\ psp.x[1] >= gs.x[1]
    \/ psp.y[1] < 0
    \/ gs.y # << >> /\ psp.y[1] >= gs.y[1]

GridSizeErrors(data) ==
    IF data.grid_size = << >> THEN << >>
    ELSE LET gs == data.grid_size[1]
         IN  IF ~HasXY(gs) THEN <<"grid_size_fields">>
             ELSE IF gs.x[1] <= 0 \/ gs.y[1] <= 0 THEN <<"grid_size_positive">>
             ELSE << >>

PositionErrors(data) ==
    IF data.player_start_position = << >> THEN << >>
    ELSE LET psp == data.player_start_position[1]
         IN  IF ~HasXY(psp) THEN <<"position_fields">>
             ELSE IF data.grid_size # << >>
                  THEN IF OutsideGrid(psp, data.grid_size[1])
                       THEN <<"position_outside">>
                       ELSE << >>
                  ELSE << >>

GoalErrors(data) ==
    IF data.cell_data = << >> THEN << >>
    ELSE IF \E k \in 1..Len(data.cell_data[1]) : data.cell_data[1][k] = 3 THEN << >>
    ELSE <<"no_goal">>

Warnings(data) ==
    (IF data.level_id # << >> /\ data.level_id[1] = "" THEN <<"empty_id">> ELSE << >>)
    \o (IF data.difficulty # << >> /\ (data.difficulty[1] < 1 \/ data.difficulty[1] > 5)
        THEN <<"difficulty_range">> ELSE << >>)

\* validate_level that fails a file for its warnings too
ValidateLevelStrict(file) ==
    IF file.parse # "ok"
    THEN [raised |-> FALSE, valid |-> FALSE, errors |-> <<file.parse>>, warnings |-> << >>]
    ELSE IF Raises(file.data)
    THEN [raised |-> TRUE, valid |-> FALSE, errors |-> << >>, warnings |-> << >>]
    ELSE LET errors == MissingFields(file.data, 5) \o GridSizeErrors(file.data)
                       \o PositionErrors(file.data) \o GoalErrors(file.data)
         IN  [raised |-> FALSE,
              valid |-> Len(errors) = 0 /\ Len(Warnings(file.data)) = 0,
              errors |-> errors,
              warnings |-> Warnings(file.data)]

\* validate_level(file_path): (valid, errors, warnings), or an exception
validate_level(file) ==
    IF file.parse # "ok"
    THEN [raised |-> FALSE, valid |-> FALSE, errors |-> <<file.parse>>, warnings |-> << >>]
    ELSE IF Raises(file.data)
    THEN [raised |-> TRUE, valid |-> FALSE, errors |-> << >>, warnings |-> << >>]
    ELSE LET errors == MissingFields(file.data, 5) \o GridSizeErrors(file.data)
                       \o PositionErrors(file.data) \o GoalErrors(file.data)
         IN  [raised |-> FALSE,
              valid |-> Len(errors) = 0,
              errors |-> errors,
              warnings |-> Warnings(file.data)]

InitMain ==
    /\ pc = "start"
    /\ dir_exists \in BOOLEAN
    /\ level_files \in 0..MaxFiles
    /\ dir_exists = FALSE => level_files = 0
    /\ total_levels = 0
    /\ valid_levels = 0
    /\ invalid_levels = 0
    /\ total_warnings = 0
    /\ outcomes = << >>
    /\ exit_code = -1
    /\ Idle({"point", "seg", "vertices", "line"})
    /\ op = "ready"
    /\ side = 0
    /\ prev_side = 0
    /\ calc = [point |-> None, divided |-> FALSE, t |-> << >>]
    /\ area = R(0)
    /\ centroid = Pt(0, 0)
    /\ prev_area = R(0)
    /\ prev_centroid = Pt(0, 0)
    /\ result = [left |-> << >>, right |-> << >>, intersections |-> << >>]
    /\ left_area = R(0)
    /\ right_area = R(0)

\* main up to its loop: the directory and the list of files
FindLevels ==
    /\ pc = "start"
    /\ IF ~dir_exists \/ level_files = 0
       THEN pc' = "done" /\ exit_code' = 1
       ELSE pc' = "loop" /\ exit_code' = exit_code
    /\ UNCHANGED <<dir_exists, level_files, total_levels, valid_levels, invalid_levels,
                   total_warnings, outcomes>>
    /\ UNCHANGED geo

\* one iteration of the loop over level_files; an exception of validate_level
\* is not caught and ends the process with exit code 1
ValidateFile ==
    /\ pc = "loop"
    /\ total_levels < level_files
    /\ \E file \in LevelFiles :
          LET r == validate_level(file)
          IN  IF r.raised
              THEN /\ pc' = "crashed"
                   /\ exit_code' = 1
                   /\ total_levels' = total_levels + 1
                   /\ UNCHANGED <<valid_levels, invalid_levels, total_warnings, outcomes>>
              ELSE /\ pc' = pc
                   /\ exit_code' = exit_code
                   /\ total_levels' = total_levels + 1
                   /\ valid_levels' = valid_levels + (IF r.valid THEN 1 ELSE 0)
                   /\ invalid_levels' = invalid_levels + (IF r.valid THEN 0 ELSE 1)
                   /\ total_warnings' = total_warnings + Len(r.warnings)
                   /\ outcomes' = Append(outcomes, [errors |-> Len(r.errors),
                                                     warnings |-> Len(r.warnings)])
    /\ UNCHANGED <<dir_exists, level_files>>
    /\ UNCHANGED geo

\* the summary and the return of main
Summary ==
    /\ pc = "loop"
    /\ total_levels = level_files
    /\ pc' = "done"
    /\ exit_code' = (IF invalid_levels = 0 THEN 0 ELSE 1)
    /\ UNCHANGED <<dir_exists, level_files, total_levels, valid_levels, invalid_levels,
                   total_warnings, outcomes>>
    /\ UNCHANGED geo

NextMain == FindLevels \/ ValidateFile \/ Summary

SpecMain == InitMain /\ [][NextMain]_vars

AllFilesPass == \A k \in 1..Len(outcomes) : outcomes[k].errors = 0

(***************************************************************************)
(* C8, as claimed: main returns 0 if all level files of the directory      *)
(* pass validate_level (their error lists are empty), and 1 otherwise.     *)
(***************************************************************************)
C8_ExitCodeIffAllPass ==
    pc = "done" => (exit_code = (IF AllFilesPass THEN 0 ELSE 1))

(***************************************************************************)
(* C8, amended: main returns 0 if the directory exists, holds at least one *)
(* level file and all its level files pass validate_level; otherwise the   *)
(* exit code is 1, also when the directory is missing or empty and when    *)
(* validate_level raises.  Warnings do not make a file fail.               *)
(***************************************************************************)
C8_ExitCodeIffSomeAndAllPass ==
    /\ pc = "done" =>
          exit_code = (IF dir_exists /\ level_files > 0 /\ Len(outcomes) = level_files
                          /\ AllFilesPass
                       THEN 0 ELSE 1)
    /\ pc = "crashed" => exit_code = 1
    /\ pc \in {"start", "loop"} => exit_code = -1

C8_Witness ==
    /\ pc = "done"
    /\ exit_code = 0
    /\ Len(outcomes) = 2
    /\ total_warnings > 0

====
